---- MODULE Spec2Model ----
(***************************************************************************)
(* Model of HistoricalTemps.py: the HistoricalTemps class (a zip code, a   *)
(* date range and the cached list of (date, max temperature) pairs loaded  *)
(* from the weather archive) and the interactive menu that owns two        *)
(* dataset slots.                                                          *)
(*                                                                         *)
(* Every method is a pure operator from the receiver, its arguments and    *)
(* the responses the archive gives to the requests the method issues, to a *)
(* record [d, exc, ret, nreq]: the receiver afterwards, the exception that *)
(* left the method (NoExc if it returned), the returned value and the      *)
(* number of archive requests issued.  The geocoder and the archive are    *)
(* the environment: every response to every request is chosen freely.      *)
(***************************************************************************)
EXTENDS Integers, Sequences, FiniteSets, TLC

VARIABLES
    ds,           \* SpecObj: the HistoricalTemps object under test (NoDataset before construction)
    dataset_one,  \* menu(): local dataset_one
    dataset_two,  \* menu(): local dataset_two
    pc,           \* menu(): "menu" in the loop, "quit" after break, "crashed" after an uncaught exception
    last          \* record of the last call: what was called, with what, and how it ended

vars == <<ds, dataset_one, dataset_two, pc, last>>

----------------------------------------------------------------------------
(* Bounds and input sets *)

\* longest array the archive puts in a response
MaxLen == 2

\* longest cached series the queries are applied to
MaxSeries == 3

\* temperatures the archive may report (degrees Celsius)
Temps == {10, 20}

\* the i-th day of a response is day i: `time` arrays are chronological
Days(k) == [i \in 1..k |-> i]

DefaultStart == "1950-08-13"
DefaultEnd == "2023-08-25"

StartInputs == {DefaultStart, "2000-01-01"}
EndInputs == {DefaultEnd, "2010-12-31"}

\* a zip code the geocoder knows and one it does not
ZipInputs == {"94041", "00000"}

NaN == "nan"

----------------------------------------------------------------------------
(* Exceptions *)

NoExc == "none"

\* KeyError is a subclass of LookupError: `except LookupError` catches both
IsLookupError(e) == e \in {"LookupError", "KeyError"}

----------------------------------------------------------------------------
(* Helpers on lists *)

Min(a, b) == IF a <= b THEN a ELSE b

\* zip(a, b): positional pairs, as long as the shorter argument
Zip(a, b) == [i \in 1..Min(Len(a), Len(b)) |-> <<a[i], b[i]>>]

\* Python's list[:n]
SliceTo(s, n) ==
    LET stop == IF n >= 0 THEN Min(n, Len(s))
                ELSE IF Len(s) + n > 0 THEN Len(s) + n ELSE 0
    IN  SubSeq(s, 1, stop)

----------------------------------------------------------------------------
(* Archive responses *)

Arrays(S, n) == UNION {[1..k -> S] : k \in 0..n}

Response(status, hasDaily, hasTime, hasTemps, time, temps) ==
    [status |-> status, hasDaily |-> hasDaily, hasTime |-> hasTime,
     hasTemps |-> hasTemps, time |-> time, temps |-> temps]

\* requests.get raises (no connection)
TransportFailure == Response("transport", FALSE, FALSE, FALSE, <<>>, <<>>)
\* the body is not JSON
MalformedJson == Response("malformed", FALSE, FALSE, FALSE, <<>>, <<>>)
\* JSON without `daily` (the archive's error body for a rejected range)
MissingDaily == Response("json", FALSE, FALSE, FALSE, <<>>, <<>>)
\* `daily` without `time`
MissingTime == Response("json", TRUE, FALSE, TRUE, <<>>, <<>>)

\* `time` and `temperature_2m_max` arrays, of equal length or one apart
DailyResponses ==
    {r \in {Response("json", TRUE, TRUE, TRUE, Days(k), t) :
                k \in 0..MaxLen, t \in Arrays(Temps, MaxLen)} :
        /\ Len(r.time) <= Len(r.temps) + 1
        /\ Len(r.temps) <= Len(r.time) + 1}

FailureResponses == {TransportFailure, MalformedJson, MissingDaily, MissingTime}

Responses == FailureResponses \cup DailyResponses

----------------------------------------------------------------------------
(* The geocoder (pgeocode), as the program sees it *)

\* query_postal_code: a row with NaN fields for a code it does not know
QueryPostalCode(zip_code) ==
    IF zip_code = "94041"
    THEN [latitude |-> "37.39", longitude |-> "-122.08", place_name |-> "Mountain View"]
    ELSE [latitude |-> NaN, longitude |-> NaN, place_name |-> NaN]

\* (lat, lon, loc_name)
zip_to_loc_info(zip_code) ==
    LET result == QueryPostalCode(zip_code)
    IN  <<result.latitude, result.longitude, result.place_name>>

isnan(x) == x = NaN

----------------------------------------------------------------------------
(* class HistoricalTemps *)

\* An object: its private fields, its identity, and the (start, end) pair
\* that was sent with the request whose response is cached in temp_list.
Dataset(id, zip_code, start, end, lat, lon, loc_name, temp_list, loaded_range) ==
    [id |-> id, zip_code |-> zip_code, start |-> start, end |-> end,
     lat |-> lat, lon |-> lon, loc_name |-> loc_name,
     temp_list |-> temp_list, loaded_range |-> loaded_range]

\* Python's None in a variable that holds a dataset
NoDataset == Dataset(0, "", "", "", "", "", "", <<>>, <<"", "">>)

IsNone(d) == d.id = 0

NoRet == <<>>

\* how a call ended
Res(d, exc, ret, nreq) == [d |-> d, exc |-> exc, ret |-> ret, nreq |-> nreq]

\* json.loads, data['daily'], the key loop and the zip
_convert_json_to_list(data) ==
    IF data.status = "malformed" THEN [exc |-> "JSONDecodeError", list |-> <<>>]
    ELSE IF ~data.hasDaily THEN [exc |-> "KeyError", list |-> <<>>]
    ELSE IF ~data.hasTime \/ ~data.hasTemps
         THEN [exc |-> "UnboundLocalError", list |-> <<>>]
    ELSE [exc |-> NoExc, list |-> Zip(data.time, data.temps)]

\* one request; the cache is assigned only when the conversion returned
_load_temps(d, results) ==
    IF results.status = "transport" THEN Res(d, "ConnectionError", NoRet, 1)
    ELSE LET c == _convert_json_to_list(results)
         IN  IF c.exc # NoExc THEN Res(d, c.exc, NoRet, 1)
             ELSE Res([d EXCEPT !.temp_list = c.list,
                                !.loaded_range = <<d.start, d.end>>],
                      NoExc, c.list, 1)

\* __init__ that loads the temperatures before it looks at the geocoder's answer
HistoricalTempsInit_LoadFirst(id, zip_code, resp) ==
    LET results == zip_to_loc_info(zip_code)
        self == Dataset(id, zip_code, DefaultStart, DefaultEnd,
                        results[1], results[2], results[3], <<>>, <<"", "">>)
        l == _load_temps(self, resp)
    IN  IF l.exc # NoExc THEN Res(NoDataset, l.exc, NoRet, 1)
        ELSE IF isnan(results[2]) THEN Res(NoDataset, "LookupError", NoRet, 1)
        ELSE Res(l.d, NoExc, NoRet, 1)

\* __init__ with the default start and end; d is NoDataset when it raises
HistoricalTempsInit(id, zip_code, resp) ==
    LET results == zip_to_loc_info(zip_code)
    IN  IF isnan(results[2]) THEN Res(NoDataset, "LookupError", NoRet, 0)
        ELSE LET self == Dataset(id, zip_code, DefaultStart, DefaultEnd,
                                 results[1], results[2], results[3],
                                 <<>>, <<"", "">>)
                 l == _load_temps(self, resp)
             IN  IF l.exc # NoExc THEN Res(NoDataset, l.exc, NoRet, 1)
                 ELSE Res(l.d, NoExc, NoRet, 1)

\* start.setter that raises without restoring og_start
SetStart_NoRollback(d, start, r1, r2) ==
    LET l1 == _load_temps([d EXCEPT !.start = start], r1)
    IN  IF l1.exc = NoExc THEN Res(l1.d, NoExc, NoRet, 1)
        ELSE Res(l1.d, "LookupError", NoRet, 1)

\* start.setter
SetStart(d, start, r1, r2) ==
    LET og_start == d.start
        l1 == _load_temps([d EXCEPT !.start = start], r1)
    IN  IF l1.exc = NoExc THEN Res(l1.d, NoExc, NoRet, 1)
        ELSE LET l2 == _load_temps([l1.d EXCEPT !.start = og_start], r2)
             IN  IF l2.exc = NoExc THEN Res(l2.d, "LookupError", NoRet, 2)
                 ELSE Res(l2.d, l2.exc, NoRet, 2)

\* end.setter
SetEnd(d, end, r1, r2) ==
    LET og_end == d.end
        l1 == _load_temps([d EXCEPT !.end = end], r1)
    IN  IF l1.exc = NoExc THEN Res(l1.d, NoExc, NoRet, 1)
        ELSE LET l2 == _load_temps([l1.d EXCEPT !.end = og_end], r2)
             IN  IF l2.exc = NoExc THEN Res(l2.d, "LookupError", NoRet, 2)
                 ELSE Res(l2.d, l2.exc, NoRet, 2)

\* extreme_days with >= for >
extreme_days_inclusive(d, threshold) ==
    SelectSeq(d.temp_list, LAMBDA high_temps : high_temps[2] >= threshold)

\* the list comprehension of extreme_days
extreme_days(d, threshold) ==
    SelectSeq(d.temp_list, LAMBDA high_temps : high_temps[2] > threshold)

\* the accumulation loop of average_temp
RECURSIVE TotalTemps(_)
TotalTemps(temperature_list) ==
    IF temperature_list = <<>> THEN 0
    ELSE TotalTemps(SubSeq(temperature_list, 1, Len(temperature_list) - 1))
         + temperature_list[Len(temperature_list)][2]

\* a quotient of two integers, kept exact
Quotient(num, den) == [num |-> num, den |-> den]

\* average_temp that takes len() of the series cached before the reload
average_temp_old_length(d, resp) ==
    LET l == _load_temps(d, resp)
    IN  IF l.exc # NoExc THEN Res(l.d, l.exc, NoRet, 1)
        ELSE IF Len(d.temp_list) = 0 THEN Res(l.d, "ZeroDivisionError", NoRet, 1)
        ELSE Res(l.d, NoExc, Quotient(TotalTemps(l.ret), Len(d.temp_list)), 1)

\* average_temp: _load_temps assigns self._temp_list before len() reads it
average_temp(d, resp) ==
    LET l == _load_temps(d, resp)
    IN  IF l.exc # NoExc THEN Res(l.d, l.exc, NoRet, 1)
        ELSE LET total_temps == TotalTemps(l.ret)
             IN  IF Len(l.d.temp_list) = 0
                 THEN Res(l.d, "ZeroDivisionError", NoRet, 1)
                 ELSE Res(l.d, NoExc, Quotient(total_temps, Len(l.d.temp_list)), 1)

\* sorted(..., key=temperature, reverse=True): a stable sort, so an element
\* goes behind every element already placed whose temperature is not lower
InsertDesc(sorted, x) ==
    LET k == Cardinality({i \in 1..Len(sorted) : sorted[i][2] >= x[2]})
    IN  SubSeq(sorted, 1, k) \o <<x>> \o SubSeq(sorted, k + 1, Len(sorted))

RECURSIVE SortedDesc(_)
SortedDesc(s) ==
    IF s = <<>> THEN <<>>
    ELSE InsertDesc(SortedDesc(SubSeq(s, 1, Len(s) - 1)), s[Len(s)])

\* top_x_days without reverse=True
top_x_days_ascending(d, num_days) ==
    LET asc == SortedDesc(d.temp_list)
    IN  SliceTo([i \in 1..Len(asc) |-> asc[Len(asc) + 1 - i]], num_days)

\* sorted(...)[:num_days]
top_x_days(d, num_days) == SliceTo(SortedDesc(d.temp_list), num_days)

----------------------------------------------------------------------------
(* SpecObj: one HistoricalTemps object and calls of its methods *)

\* a call of op with arg on the receiver pre, ended as r says
Call(op, arg, pre, r) ==
    [op |-> op, arg |-> arg, pre |-> pre, exc |-> r.exc, ret |-> r.ret,
     nreq |-> r.nreq, msg |-> ""]

NoCall ==
    [op |-> "", arg |-> "", pre |-> NoDataset, exc |-> NoExc, ret |-> NoRet,
     nreq |-> 0, msg |-> ""]

ThresholdInputs == {0, 10, 15, 20, 25}
NumDaysInputs == -2..(MaxSeries + 1)

InitObj ==
    /\ ds = NoDataset
    /\ dataset_one = NoDataset
    /\ dataset_two = NoDataset
    /\ pc = "object"
    /\ last = NoCall

\* ds = HistoricalTemps(zip_code): ds is bound only when __init__ returns
Construct ==
    \E zip_code \in ZipInputs, resp \in Responses :
        LET r == HistoricalTempsInit(1, zip_code, resp)
        IN  /\ ds' = IF r.exc = NoExc THEN r.d ELSE ds
            /\ last' = Call("__init__", zip_code, ds, r)
            /\ UNCHANGED <<dataset_one, dataset_two, pc>>

\* ds.start = start
AssignStart ==
    /\ ~IsNone(ds)
    /\ \E start \in StartInputs, r1 \in Responses :
         \E r2 \in IF _load_temps(ds, r1).exc = NoExc THEN {r1} ELSE Responses :
            LET r == SetStart(ds, start, r1, r2)
            IN  /\ ds' = r.d
                /\ last' = Call("start", start, ds, r)
                /\ UNCHANGED <<dataset_one, dataset_two, pc>>

\* ds.end = end
AssignEnd ==
    /\ ~IsNone(ds)
    /\ \E end \in EndInputs, r1 \in Responses :
         \E r2 \in IF _load_temps(ds, r1).exc = NoExc THEN {r1} ELSE Responses :
            LET r == SetEnd(ds, end, r1, r2)
            IN  /\ ds' = r.d
                /\ last' = Call("end", end, ds, r)
                /\ UNCHANGED <<dataset_one, dataset_two, pc>>

\* ds._load_temps()
CallLoadTemps ==
    /\ ~IsNone(ds)
    /\ \E resp \in Responses :
         LET r == _load_temps(ds, resp)
         IN  /\ ds' = r.d
             /\ last' = Call("_load_temps", resp, ds, r)
             /\ UNCHANGED <<dataset_one, dataset_two, pc>>

\* ds.average_temp()
CallAverageTemp ==
    /\ ~IsNone(ds)
    /\ \E resp \in Responses :
         LET r == average_temp(ds, resp)
         IN  /\ ds' = r.d
             /\ last' = Call("average_temp", resp, ds, r)
             /\ UNCHANGED <<dataset_one, dataset_two, pc>>

\* ds.extreme_days(threshold)
CallExtremeDays ==
    /\ ~IsNone(ds)
    /\ \E threshold \in ThresholdInputs :
         /\ last' = Call("extreme_days", threshold, ds,
                         Res(ds, NoExc, extreme_days(ds, threshold), 0))
         /\ UNCHANGED <<ds, dataset_one, dataset_two, pc>>

\* ds.top_x_days(num_days)
CallTopXDays ==
    /\ ~IsNone(ds)
    /\ \E num_days \in NumDaysInputs :
         /\ last' = Call("top_x_days", num_days, ds,
                         Res(ds, NoExc, top_x_days(ds, num_days), 0))
         /\ UNCHANGED <<ds, dataset_one, dataset_two, pc>>

NextObj ==
    \/ Construct
    \/ AssignStart
    \/ AssignEnd
    \/ CallLoadTemps
    \/ CallAverageTemp

SpecObj == InitObj /\ [][NextObj]_vars

----------------------------------------------------------------------------
(* SpecQuery: the queries, applied to every series of up to MaxSeries days *)

\* the datasets a construction leaves when the archive answers with n days
Loaded ==
    {HistoricalTempsInit(1, "94041",
                         Response("json", TRUE, TRUE, TRUE, Days(Len(t)), t)).d :
        t \in Arrays(Temps, MaxSeries)}

InitQuery ==
    /\ ds \in Loaded
    /\ dataset_one = NoDataset
    /\ dataset_two = NoDataset
    /\ pc = "object"
    /\ last = NoCall

NextQuery ==
    \/ CallExtremeDays
    \/ CallTopXDays

SpecQuery == InitQuery /\ [][NextQuery]_vars

----------------------------------------------------------------------------
(* The interactive shell *)

\* what a shell function printed, by its first words ("" for nothing)
Shell(one, two, exc, msg, ret, nreq) ==
    [one |-> one, two |-> two, exc |-> exc, msg |-> msg, ret |-> ret, nreq |-> nreq]

\* id() of a new object differs from the ids of the objects still referenced
FreshId(one, two) == CHOOSE i \in 1..3 : i \notin {one.id, two.id}

\* create_dataset: the new dataset, or None after a LookupError
create_dataset(id, zip_code, resp) ==
    LET r == HistoricalTempsInit(id, zip_code, resp)
    IN  IF r.exc = NoExc THEN [d |-> r.d, exc |-> NoExc, msg |-> "", nreq |-> r.nreq]
        ELSE IF IsLookupError(r.exc)
             THEN [d |-> NoDataset, exc |-> NoExc,
                   msg |-> "Data could not be loaded", nreq |-> r.nreq]
             ELSE [d |-> NoDataset, exc |-> r.exc, msg |-> "", nreq |-> r.nreq]

\* compare_average_temps: both averages are computed before anything is printed
compare_average_temps(dataset_1, dataset_2, r1, r2) ==
    IF IsNone(dataset_1) \/ IsNone(dataset_2)
    THEN Shell(dataset_1, dataset_2, NoExc, "Please load two datasets first", NoRet, 0)
    ELSE LET a1 == average_temp(dataset_1, r1)
         IN  IF a1.exc # NoExc THEN Shell(a1.d, dataset_2, a1.exc, "", NoRet, 1)
             ELSE LET a2 == average_temp(dataset_2, r2)
                  IN  IF a2.exc # NoExc THEN Shell(a1.d, a2.d, a2.exc, "", NoRet, 2)
                      ELSE Shell(a1.d, a2.d, NoExc, "The average maximum temperatures",
                                 NoRet, 2)

\* what the user types at "List days above what temperature? "
ThresholdTexts ==
    {[isFloat |-> FALSE, value |-> 0]} \cup
    {[isFloat |-> TRUE, value |-> t] : t \in {5, 15}}

\* print_extreme_days
print_extreme_days(dataset, threshold) ==
    IF IsNone(dataset) THEN [msg |-> "Please load this dataset first", ret |-> NoRet]
    ELSE IF ~threshold.isFloat
         THEN [msg |-> "Please enter a valid temperature", ret |-> NoRet]
         ELSE [msg |-> "There are", ret |-> extreme_days(dataset, threshold.value)]

\* print_top_five_days
print_top_five_days(dataset) ==
    IF IsNone(dataset) THEN [msg |-> "Please load this dataset first", ret |-> NoRet]
    ELSE [msg |-> "Following are the hottest five days", ret |-> top_x_days(dataset, 5)]

\* change_dates without the return after the start date's message
change_dates_no_return(dataset, start_dates, end_date, r1, r2, r3, r4) ==
    IF IsNone(dataset)
    THEN [d |-> dataset, exc |-> NoExc, msg |-> "Please load this dataset first", nreq |-> 0]
    ELSE LET s == SetStart(dataset, start_dates, r1, r2)
         IN  IF s.exc # NoExc /\ ~IsLookupError(s.exc)
             THEN [d |-> s.d, exc |-> s.exc, msg |-> "", nreq |-> s.nreq]
             ELSE LET e == SetEnd(s.d, end_date, r3, r4)
                      said == IF s.exc # NoExc THEN "Start date could not be changed."
                              ELSE ""
                  IN  IF IsLookupError(e.exc)
                      THEN [d |-> e.d, exc |-> NoExc,
                            msg |-> "End date could not be changed.",
                            nreq |-> s.nreq + e.nreq]
                      ELSE [d |-> e.d, exc |-> e.exc, msg |-> said,
                            nreq |-> s.nreq + e.nreq]

\* change_dates: r1, r2 answer the start assignment, r3, r4 the end assignment
change_dates(dataset, start_dates, end_date, r1, r2, r3, r4) ==
    IF IsNone(dataset)
    THEN [d |-> dataset, exc |-> NoExc, msg |-> "Please load this dataset first", nreq |-> 0]
    ELSE LET s == SetStart(dataset, start_dates, r1, r2)
         IN  IF IsLookupError(s.exc)
             THEN [d |-> s.d, exc |-> NoExc,
                   msg |-> "Start date could not be changed.", nreq |-> s.nreq]
             ELSE IF s.exc # NoExc
             THEN [d |-> s.d, exc |-> s.exc, msg |-> "", nreq |-> s.nreq]
             ELSE LET e == SetEnd(s.d, end_date, r3, r4)
                  IN  IF IsLookupError(e.exc)
                      THEN [d |-> e.d, exc |-> NoExc,
                            msg |-> "End date could not be changed.",
                            nreq |-> s.nreq + e.nreq]
                      ELSE [d |-> e.d, exc |-> e.exc, msg |-> "",
                            nreq |-> s.nreq + e.nreq]

\* an assignment that keeps the slot when create_dataset returned None
assign_or_keep(current, created) == IF IsNone(created) THEN current ELSE created

\* dataset_one = create_dataset() / dataset_two = create_dataset()
assign(current, created) == created

\* what the user types at "What is your choice? "
NumberTexts == {"0", "1", "2", "3", "4", "5", "6", "7", "8", "9", "10", "01"}
ChoiceTexts == NumberTexts \cup {"abc", ""}

\* int(user_choice) raises ValueError
IsInt(text) == text \in NumberTexts

\* what the user typed after the choice
Typed(zip_code, threshold, start_dates, end_date) ==
    [zip_code |-> zip_code, threshold |-> threshold, start_dates |-> start_dates,
     end_date |-> end_date]

NoThreshold == [isFloat |-> FALSE, value |-> 0]

Nothing == Typed("", NoThreshold, "", "")

----------------------------------------------------------------------------
(* Spec: a session of menu(), one action for each case of the match *)

\* the shell is explored against three failures, an empty answer and an
\* answer of one day
ShellResponses ==
    {TransportFailure, MalformedJson, MissingDaily,
     Response("json", TRUE, TRUE, TRUE, <<>>, <<>>),
     Response("json", TRUE, TRUE, TRUE, Days(1), <<10>>)}

ShellStartInputs == {"2000-01-01"}
ShellEndInputs == {"2010-12-31"}

\* the responses a further request can get; r when none is issued
After(issued, r) == IF issued THEN ShellResponses ELSE {r}

Init ==
    /\ ds = NoDataset
    /\ dataset_one = NoDataset
    /\ dataset_two = NoDataset
    /\ pc = "menu"
    /\ last = NoCall

\* the end of an iteration: an uncaught exception leaves menu(), 9 breaks
Finish(user_choice, typed, one, two, exc, msg, ret, nreq) ==
    /\ dataset_one' = one
    /\ dataset_two' = two
    /\ pc' = IF exc # NoExc THEN "crashed"
             ELSE IF user_choice = "9" THEN "quit" ELSE "menu"
    /\ last' = [op |-> user_choice, arg |-> typed,
                pre |-> <<dataset_one, dataset_two>>,
                exc |-> exc, ret |-> ret, nreq |-> nreq, msg |-> msg]
    /\ UNCHANGED ds

\* case "1": dataset_one = create_dataset()
Choice1 ==
    /\ pc = "menu"
    /\ \E zip_code \in ZipInputs, r1 \in ShellResponses :
         LET c == create_dataset(FreshId(dataset_one, dataset_two), zip_code, r1)
         IN  Finish("1", [Nothing EXCEPT !.zip_code = zip_code],
                    IF c.exc = NoExc THEN assign(dataset_one, c.d) ELSE dataset_one,
                    dataset_two, c.exc, c.msg, NoRet, c.nreq)

\* case "2": dataset_two = create_dataset()
Choice2 ==
    /\ pc = "menu"
    /\ \E zip_code \in ZipInputs, r1 \in ShellResponses :
         LET c == create_dataset(FreshId(dataset_one, dataset_two), zip_code, r1)
         IN  Finish("2", [Nothing EXCEPT !.zip_code = zip_code],
                    dataset_one,
                    IF c.exc = NoExc THEN assign(dataset_two, c.d) ELSE dataset_two,
                    c.exc, c.msg, NoRet, c.nreq)

\* case "3": compare_average_temps(dataset_one, dataset_two)
Choice3 ==
    /\ pc = "menu"
    /\ \E r1 \in ShellResponses :
         \E r2 \in After(/\ ~IsNone(dataset_one)
                         /\ ~IsNone(dataset_two)
                         /\ average_temp(dataset_one, r1).exc = NoExc, r1) :
            LET c == compare_average_temps(dataset_one, dataset_two, r1, r2)
            IN  Finish("3", Nothing, c.one, c.two, c.exc, c.msg, c.ret, c.nreq)

\* case "4": print_extreme_days(dataset_one)
Choice4 ==
    /\ pc = "menu"
    /\ \E threshold \in ThresholdTexts :
         LET p == print_extreme_days(dataset_one, threshold)
         IN  Finish("4", [Nothing EXCEPT !.threshold = threshold],
                    dataset_one, dataset_two, NoExc, p.msg, p.ret, 0)

\* case "5": print_top_five_days(dataset_one)
Choice5 ==
    /\ pc = "menu"
    /\ LET p == print_top_five_days(dataset_one)
       IN  Finish("5", Nothing, dataset_one, dataset_two, NoExc, p.msg, p.ret, 0)

\* the answers to the requests of change_dates(dataset): r2 when the first
\* reload fails, r3 when the start assignment returns, r4 when r3 fails
ChangeDatesAnswers(dataset, start_dates) ==
    IF IsNone(dataset) THEN {<<TransportFailure, TransportFailure,
                               TransportFailure, TransportFailure>>}
    ELSE UNION {
           IF _load_temps(dataset, r1).exc # NoExc
           THEN {<<r1, r2, r1, r1>> : r2 \in ShellResponses}
           ELSE UNION {
                  IF _load_temps(dataset, r3).exc # NoExc
                  THEN {<<r1, r1, r3, r4>> : r4 \in ShellResponses}
                  ELSE {<<r1, r1, r3, r3>>} : r3 \in ShellResponses}
           : r1 \in ShellResponses}

\* case "6": change_dates(dataset_one)
Choice6 ==
    /\ pc = "menu"
    /\ \E start_dates \in ShellStartInputs, end_date \in ShellEndInputs :
         \E r \in ChangeDatesAnswers(dataset_one, start_dates) :
            LET c == change_dates(dataset_one, start_dates, end_date,
                                  r[1], r[2], r[3], r[4])
            IN  Finish("6", Typed("", NoThreshold, start_dates, end_date),
                       c.d, dataset_two, c.exc, c.msg, NoRet, c.nreq)

\* case "7": change_dates(dataset_two)
Choice7 ==
    /\ pc = "menu"
    /\ \E start_dates \in ShellStartInputs, end_date \in ShellEndInputs :
         \E r \in ChangeDatesAnswers(dataset_two, start_dates) :
            LET c == change_dates(dataset_two, start_dates, end_date,
                                  r[1], r[2], r[3], r[4])
            IN  Finish("7", Typed("", NoThreshold, start_dates, end_date),
                       dataset_one, c.d, c.exc, c.msg, NoRet, c.nreq)

\* case "8"
Choice8 ==
    /\ pc = "menu"
    /\ Finish("8", Nothing, dataset_one, dataset_two, NoExc,
              "Selection eight is not functional yet", NoRet, 0)

\* case "9": break
Choice9 ==
    /\ pc = "menu"
    /\ Finish("9", Nothing, dataset_one, dataset_two, NoExc, "Goodbye!", NoRet, 0)

\* int(user_choice) raises ValueError, or case _
ChoiceOther ==
    /\ pc = "menu"
    /\ \E user_choice \in ChoiceTexts \ {"1", "2", "3", "4", "5", "6", "7", "8", "9"} :
         Finish(user_choice, Nothing, dataset_one, dataset_two, NoExc,
                IF IsInt(user_choice) THEN "That wasn't a valid selection"
                ELSE "Please enter a number only",
                NoRet, 0)

Next ==
    \/ Choice1
    \/ Choice2
    \/ Choice3
    \/ Choice4
    \/ Choice5
    \/ Choice6
    \/ Choice7
    \/ Choice8
    \/ Choice9
    \/ ChoiceOther

Spec == Init /\ [][Next]_vars

----------------------------------------------------------------------------
(* Properties *)

\* the sum of the temperatures of a series, from its head
RECURSIVE SumOf(_)
SumOf(s) == IF s = <<>> THEN 0 ELSE Head(s)[2] + SumOf(Tail(s))

\* the i-th smallest index of idx
Nth(idx, i) == CHOOSE j \in idx : Cardinality({k \in idx : k < j}) = i - 1

\* out is s restricted to the indexes idx, in the order of s
IsSelection(out, s, idx) ==
    /\ Len(out) = Cardinality(idx)
    /\ \A i \in 1..Len(out) : out[i] = s[Nth(idx, i)]

\* index a of s ranks before index b: hotter, or as hot and earlier
Before(s, a, b) == s[a][2] > s[b][2] \/ (s[a][2] = s[b][2] /\ a < b)

\* out is the n first points of s by rank (all of s when s is shorter)
IsTop(out, s, n) ==
    /\ Len(out) = IF Len(s) < n THEN Len(s) ELSE n
    /\ \E f \in [1..Len(out) -> 1..Len(s)] :
         /\ \A i \in 1..Len(out) : out[i] = s[f[i]]
         /\ \A i, j \in 1..Len(out) : i < j => Before(s, f[i], f[j])
         /\ \A k \in 1..Len(s) :
              (\A i \in 1..Len(out) : f[i] # k) =>
                  \A i \in 1..Len(out) : Before(s, f[i], k)

\* the arrays of a response differ in length, or it is not JSON, or has no `daily`
IsBadFormat(r) ==
    \/ r.status = "malformed"
    \/ r.status = "json" /\ ~r.hasDaily
    \/ r.status = "json" /\ r.hasDaily /\ Len(r.time) # Len(r.temps)

\* C1: when the reload of a start or end assignment fails, the setter leaves
\* start, end and the cached series as they were before the assignment and
\* the error it raises is a LookupError, also when the second reload fails.
C1_FailedAssignmentRestoresAll ==
    (last.op \in {"start", "end"} /\ last.exc # NoExc) =>
        /\ ds.start = last.pre.start
        /\ ds.end = last.pre.end
        /\ ds.temp_list = last.pre.temp_list
        /\ IsLookupError(last.exc)

\* C2: the menu loop ends only when the user enters 9; no failure of a
\* geocoding lookup or archive request ends the session.
C2_OnlyQuitEndsTheSession ==
    pc # "menu" => (pc = "quit" /\ last.op = "9")

\* C3: constructing a HistoricalTemps for a zip code the geocoder does not
\* know raises LookupError, produces no object and issues no archive request.
C3_UnknownZipFailsFast ==
    (last.op = "__init__" /\ QueryPostalCode(last.arg).latitude = NaN) =>
        /\ last.exc = "LookupError"
        /\ last.nreq = 0
        /\ ds = last.pre

C3_Witness ==
    /\ last.op = "__init__"
    /\ last.arg = "00000"
    /\ last.exc = "LookupError"
    /\ ~IsNone(ds)

\* C4: a load whose response is malformed JSON, lacks `daily` or has arrays of
\* different lengths fails with a data-format error and caches no series.
C4_BadFormatIsRejected ==
    (last.op = "_load_temps" /\ IsBadFormat(last.arg)) =>
        /\ last.exc \in {"JSONDecodeError", "KeyError", "UnboundLocalError"}
        /\ ds.temp_list = last.pre.temp_list

\* C5: extreme_days(t) returns exactly the points of the cached series whose
\* temperature is strictly greater than t, in series order, issues no request
\* and leaves the dataset as it was.
C5_ExtremeDaysIsTheStrictFilter ==
    last.op = "extreme_days" =>
        /\ last.exc = NoExc
        /\ IsSelection(last.ret, last.pre.temp_list,
                       {j \in 1..Len(last.pre.temp_list) :
                            last.pre.temp_list[j][2] > last.arg})
        /\ last.nreq = 0
        /\ ds = last.pre

C5_Witness ==
    /\ last.op = "extreme_days"
    /\ Len(ds.temp_list) = MaxSeries
    /\ ds.temp_list[1][2] <= last.arg
    /\ Len(last.ret) = MaxSeries - 1

\* C6 as claimed: for every integer n, top_x_days(n) returns exactly n points
\* (the whole series when it is shorter), hottest first, equal temperatures in
\* series order, and leaves the cached series as it was.
C6_TopXDaysForEveryInteger ==
    last.op = "top_x_days" =>
        /\ IsTop(last.ret, last.pre.temp_list, last.arg)
        /\ ds = last.pre

\* C6 amended: the same for every n >= 0.
C6_TopXDaysForNonNegative ==
    (last.op = "top_x_days" /\ last.arg >= 0) =>
        /\ IsTop(last.ret, last.pre.temp_list, last.arg)
        /\ ds = last.pre

C6_Witness ==
    /\ last.op = "top_x_days"
    /\ last.arg = 2
    /\ Len(ds.temp_list) = 3
    /\ ds.temp_list[1][2] < ds.temp_list[2][2]
    /\ ds.temp_list[2][2] = ds.temp_list[3][2]
    /\ last.ret = <<ds.temp_list[2], ds.temp_list[3]>>

\* C7 as claimed: average_temp returns the sum of the reloaded temperatures
\* divided by the length of the series cached before the call.
C7_AverageDividesByOldLength ==
    (last.op = "average_temp" /\ last.exc = NoExc /\ Len(last.pre.temp_list) # 0) =>
        last.ret.num * Len(last.pre.temp_list)
            = SumOf(Zip(last.arg.time, last.arg.temps)) * last.ret.den

\* C7 amended: average_temp issues one request; when the reload succeeds the
\* reloaded series replaces the cache and the result is its sum divided by its
\* own length (ZeroDivisionError when it is empty); when the reload fails the
\* dataset is as it was.
C7_AverageDividesByReloadedLength ==
    last.op = "average_temp" =>
        LET fresh == Zip(last.arg.time, last.arg.temps)
        IN  /\ last.nreq = 1
            /\ last.exc = NoExc =>
                 /\ ds.temp_list = fresh
                 /\ last.ret.den # 0
                 /\ last.ret.num * Len(fresh) = SumOf(fresh) * last.ret.den
            /\ last.exc = "ZeroDivisionError" =>
                 /\ ds.temp_list = <<>>
                 /\ fresh = <<>>
            /\ last.exc \notin {NoExc, "ZeroDivisionError"} => ds = last.pre

C7_Witness ==
    /\ last.op = "average_temp"
    /\ last.exc = NoExc
    /\ Len(last.pre.temp_list) # 0
    /\ Len(last.pre.temp_list) # Len(ds.temp_list)

\* C8: whenever control is with the caller, the cached series of a dataset is
\* the result of a successful load made with its current (start, end).
C8_SeriesMatchesRange ==
    ~IsNone(ds) => ds.loaded_range = <<ds.start, ds.end>>

C8_Witness ==
    /\ last.op = "start"
    /\ last.arg # last.pre.start
    /\ last.exc = "ConnectionError"
    /\ ds.start = last.pre.start

\* the slot a change of dates is about, before and after
DatesBefore == IF last.op = "6" THEN last.pre[1] ELSE last.pre[2]
DatesAfter == IF last.op = "6" THEN dataset_one ELSE dataset_two

\* C9: after choice 1 (2) slot one (two) holds the new dataset, or is empty
\* when creation failed with LookupError, and the other slot is unchanged;
\* every other input leaves both slots holding the same objects.
C9_SlotsAfterAnIteration ==
    /\ (last.op = "1" /\ last.exc = NoExc) =>
         /\ dataset_two = last.pre[2]
         /\ IF last.msg = "Data could not be loaded"
            THEN IsNone(dataset_one)
            ELSE /\ ~IsNone(dataset_one)
                 /\ dataset_one.id \notin {last.pre[1].id, last.pre[2].id}
                 /\ dataset_one.zip_code = last.arg.zip_code
    /\ (last.op = "2" /\ last.exc = NoExc) =>
         /\ dataset_one = last.pre[1]
         /\ IF last.msg = "Data could not be loaded"
            THEN IsNone(dataset_two)
            ELSE /\ ~IsNone(dataset_two)
                 /\ dataset_two.id \notin {last.pre[1].id, last.pre[2].id}
                 /\ dataset_two.zip_code = last.arg.zip_code
    /\ (last.op \notin {"", "1", "2"} \/ last.exc # NoExc) =>
         /\ dataset_one.id = last.pre[1].id
         /\ dataset_two.id = last.pre[2].id

C9_Witness ==
    /\ last.op = "1"
    /\ last.msg = "Data could not be loaded"
    /\ ~IsNone(last.pre[1])
    /\ IsNone(dataset_one)
    /\ ~IsNone(dataset_two)

====
